---- MODULE Spec2Model ----
(***************************************************************************)
(* The room/session state machine of the signalling relay: the Node server *)
(* and the Deno server.  Both keep a registry `rooms` (a Map from room id  *)
(* to {sender, receiver, token, touchedAt}), annotate each WebSocket with  *)
(* roomId/role, rate-limit inbound messages per socket and sweep stale     *)
(* rooms.  The variable `impl` fixes which of the two servers is running.  *)
(***************************************************************************)
EXTENDS Integers, Sequences, FiniteSets, TLC

(* ------------------------------ bounds --------------------------------- *)

\* Last value of the clock (Date.now() is read as `now`).
MaxTime == 4
\* Frames each socket may send in one run: c1 the most, c3 the fewest.
MaxFrames1 == 3
MaxFrames2 == 2
MaxFrames3 == 1
\* Frames of all sockets together in one run.
MaxTotal == 4

(* ------------------------ program constants ---------------------------- *)

\* Scaled down from 10_000 ms, 60 messages and 30 minutes.
RATE_LIMIT_WINDOW_MS == 1
RATE_LIMIT_MAX == 2
ROOM_TTL_MS == 3
MAX_PER_ROOM == 2

CLOSE_TOO_BIG == 1009
CLOSE_RATE_LIMIT == 1013
CLOSE_BAD_JSON == 1003
CLOSE_INVALID_PATH == 1008
\* close() without a code: the peer sees "no status received".
CLOSE_NO_CODE == 1005
\* close() was never called by the server.
NOT_CLOSED == 0

(* ----------------------------- universe -------------------------------- *)

None == "none"
Impls == {"node", "deno"}
Conns == {"c1", "c2", "c3"}
RoomIds == {"r1", "r2"}
Tokens == {"t1", "t2"}
\* role is any truthy string: only 'sender' and 'receiver' name a slot.
Roles == {"sender", "receiver", "viewer"}
RelayTypes == {"offer", "answer", "ice"}
Datas == {"d1", "d2"}
Urls == {"/ws", "/ws?x"}
MaxFrames(c) == IF c = "c1" THEN MaxFrames1 ELSE IF c = "c2" THEN MaxFrames2 ELSE MaxFrames3

\* An inbound payload: its size class, whether JSON.parse accepts it, and
\* the fields of the parsed envelope (None: the field is absent).
Payload(big, json, type, roomId, token, role, data) ==
    [big |-> big, json |-> json, type |-> type, roomId |-> roomId,
     token |-> token, role |-> role, data |-> data]

JoinMsg(r, t, R) == Payload(FALSE, TRUE, "join", r, t, R, None)
RelayMsg(T, d) == Payload(FALSE, TRUE, T, None, None, None, d)
LeaveMsg == Payload(FALSE, TRUE, "leave", None, None, None, None)
BogusMsg == Payload(FALSE, TRUE, "bogus", None, None, None, None)
BigMsg == Payload(TRUE, TRUE, "bogus", None, None, None, None)
GarbageMsg == Payload(FALSE, FALSE, None, None, None, None, None)

\* The frames each socket may send.
Frames1 ==
    {JoinMsg("r1", "t1", "sender"), JoinMsg("r1", "t1", "receiver"),
     JoinMsg("r2", "t1", "sender"), RelayMsg("offer", "d1"),
     RelayMsg("ice", "d2"), LeaveMsg}
Frames2 ==
    {JoinMsg("r1", "t1", "receiver"), JoinMsg("r1", "t1", "sender"),
     JoinMsg("r1", "t2", "receiver"), RelayMsg("answer", "d2"), LeaveMsg}
Frames3 ==
    {JoinMsg("r1", "t1", "sender"), JoinMsg("r1", "t1", "receiver"),
     JoinMsg("r1", "t1", "viewer")}
\* The frames of the rate-limit runs: none needs a room.
RateFrames == {BogusMsg, GarbageMsg, BigMsg, LeaveMsg, JoinMsg("r1", "t1", None)}
Frames(c) == IF c = "c1" THEN Frames1 ELSE IF c = "c2" THEN Frames2 ELSE Frames3

\* A server -> client envelope.
Out(type, roomId, role, message, data) ==
    [type |-> type, roomId |-> roomId, role |-> role, message |-> message,
     data |-> data]
Joined(r, R) == Out("joined", r, R, None, None)
Ready == Out("ready", None, None, None, None)
PeerLeft == Out("peer-left", None, None, None, None)
Err(text) == Out("error", None, None, text, None)
Relayed(T, d) == Out(T, None, None, None, d)

VARIABLES
    impl,        \* which server runs: "node" or "deno"
    now,         \* Date.now()
    rooms,       \* the registry: a function whose DOMAIN is the Map's keys
    connRoom,    \* ws.roomId (None: undefined)
    connRole,    \* ws.role (None: undefined)
    readyState,  \* "NEW" (not yet connected), "OPEN", "CLOSING", "CLOSED"
    attached,    \* whether the message/close/error handlers were registered
    closeCode,   \* the code of the server's first ws.close call
    rateLimit,   \* the WeakMap: per socket, the timestamps kept
    handled,     \* how many frames of each socket the server has handled
    sent,        \* what the last handler actually wrote: <<[to, msg]>>
    arrivals,    \* history: every timestamp the limiter was asked about
    notices,     \* history: peer-left written by cleanups of a socket
                 \* since its last successful join
    hasLeft      \* history: the socket sent leave after its last successful
                 \* join

vars == <<impl, now, rooms, connRoom, connRole, readyState, attached,
          closeCode, rateLimit, handled, sent, arrivals, notices, hasLeft>>

(* ------------------------------ helpers -------------------------------- *)

\* The text of an error envelope: the two servers word them differently.
ErrText(node, deno) == IF impl = "node" THEN node ELSE deno

\* What one handler invocation works on: the shared state, plus `out` (the
\* frames written so far) and `ok` (a join ran to its end).
World ==
    [rooms |-> rooms, roomId |-> connRoom, role |-> connRole,
     rs |-> readyState, code |-> closeCode, rate |-> rateLimit,
     out |-> <<>>, ok |-> FALSE]

\* send(ws, message): written only to an OPEN socket.
send(w, ws, m) ==
    IF ws # None /\ w.rs[ws] = "OPEN"
    THEN [w EXCEPT !.out = Append(@, [to |-> ws, msg |-> m])]
    ELSE w

\* ws.close(code): starts the closing handshake of an OPEN socket; a no-op
\* on a socket that is already CLOSING or CLOSED.
close(w, ws, code) ==
    IF w.rs[ws] = "OPEN"
    THEN [w EXCEPT !.rs[ws] = "CLOSING", !.code[ws] = code]
    ELSE w

touchRoom(w, id) ==
    IF id \in DOMAIN w.rooms
    THEN [w EXCEPT !.rooms[id].touchedAt = now]
    ELSE w

getRoom(w, id) ==
    IF id \notin DOMAIN w.rooms
    THEN [w EXCEPT !.rooms = (id :> [sender |-> None, receiver |-> None,
                                     touchedAt |-> now, token |-> None]) @@ @]
    ELSE w

\* rooms.delete(id)
deleteRoom(w, id) ==
    [w EXCEPT !.rooms = [r \in (DOMAIN w.rooms) \ {id} |-> w.rooms[r]]]

\* [room.sender, room.receiver].filter(Boolean).length
occupied(room) ==
    (IF room.sender # None THEN 1 ELSE 0) + (IF room.receiver # None THEN 1 ELSE 0)

(* --------------------------- rate limiter ------------------------------ *)

\* entry.filter(t => t >= windowStart), then push(now())
windowNext(entry) ==
    Append(SelectSeq(entry, LAMBDA t : t >= now - RATE_LIMIT_WINDOW_MS), now)

\* Mutant: the cap is reached one message early.
overLimitEarly(next) == Len(next) >= RATE_LIMIT_MAX

\* next.length > RATE_LIMIT_MAX
overLimit(next) == Len(next) > RATE_LIMIT_MAX

\* enforceRateLimit / enforceRate: the world after it; the verdict is
\* ~overLimit(windowNext(...)) of the entry before.
enforceRateLimit(w, ws) ==
    LET next == windowNext(w.rate[ws])
        w1 == [w EXCEPT !.rate[ws] = next]
    IN  IF overLimit(next) THEN close(w1, ws, CLOSE_RATE_LIMIT) ELSE w1

(* ------------------------------ cleanup -------------------------------- *)

\* The slot is cleared only when it still references this socket.
clearSlot(room, ws, role) ==
    [room EXCEPT !.sender = IF role = "sender" /\ @ = ws THEN None ELSE @,
                 !.receiver = IF role = "receiver" /\ @ = ws THEN None ELSE @]

\* Mutant: the slot of the same role.
peerOfSameRole(room, role) == IF role = "sender" THEN room.sender ELSE room.receiver

\* role === 'sender' ? room.receiver : room.sender
peerOf(room, role) == IF role = "sender" THEN room.receiver ELSE room.sender

cleanupSocket(w, ws) ==
    LET id == w.roomId[ws]
        role == w.role[ws]
    IN  IF id = None \/ role = None THEN w
        ELSE IF id \notin DOMAIN w.rooms THEN w
        ELSE LET w1 == [w EXCEPT !.rooms[id] = clearSlot(@, ws, role)]
                 w2 == send(w1, peerOf(w1.rooms[id], role), PeerLeft)
                 w3 == touchRoom(w2, id)
             IN  IF w3.rooms[id].sender = None /\ w3.rooms[id].receiver = None
                 THEN deleteRoom(w3, id)
                 ELSE w3

(* ------------------------------ janitor -------------------------------- *)

\* room.touchedAt < cutoff
stale(room) == room.touchedAt < now - ROOM_TTL_MS

\* One stale room: close its occupants, delete it.
evict(w, id) ==
    LET room == w.rooms[id]
        w1 == IF room.sender # None THEN close(w, room.sender, CLOSE_NO_CODE) ELSE w
        w2 == IF room.receiver # None THEN close(w1, room.receiver, CLOSE_NO_CODE) ELSE w1
    IN  deleteRoom(w2, id)

RECURSIVE sweep(_, _)
sweep(w, ids) ==
    IF ids = {} THEN w
    ELSE LET id == CHOOSE x \in ids : TRUE
         IN  sweep(IF stale(w.rooms[id]) THEN evict(w, id) ELSE w, ids \ {id})

cleanupStaleRooms(w) == sweep(w, DOMAIN w.rooms)

(* -------------------------------- join --------------------------------- *)

\* Mutant: the comparison inverted.
badTokenInverted(room, token) == room.token # None /\ room.token = token

\* room.token && room.token !== token
badToken(room, token) == room.token # None /\ room.token # token

\* Mutant: the token of the first joiner is not recorded.
adoptTokenNever(room, token) == room

\* if (!room.token) room.token = token
adoptToken(room, token) ==
    IF room.token = None THEN [room EXCEPT !.token = token] ELSE room

\* Mutant: the sender check looks at the receiver slot.
senderTakenWrongSlot(room, ws, role) ==
    role = "sender" /\ room.receiver # None /\ room.receiver # ws

\* role === 'sender' && room.sender && room.sender !== ws
senderTaken(room, ws, role) ==
    role = "sender" /\ room.sender # None /\ room.sender # ws

\* role === 'receiver' && room.receiver && room.receiver !== ws
receiverTaken(room, ws, role) ==
    role = "receiver" /\ room.receiver # None /\ room.receiver # ws

\* Mutant: off by one, a room is never full.
roomFullOffByOne(room, ws) ==
    occupied(room) > MAX_PER_ROOM /\ ws \notin {room.sender, room.receiver}

\* both slots taken and ws in neither
roomFull(room, ws) ==
    occupied(room) >= MAX_PER_ROOM /\ ws \notin {room.sender, room.receiver}

\* if (role === 'sender') room.sender = ws; if (role === 'receiver') ...
occupy(room, ws, role) ==
    [room EXCEPT !.sender = IF role = "sender" THEN ws ELSE @,
                 !.receiver = IF role = "receiver" THEN ws ELSE @]

\* Mutant: ready goes to the sender only.
announceReadySenderOnly(w, id) ==
    LET room == w.rooms[id]
    IN  IF room.sender # None /\ room.receiver # None
        THEN send(w, room.sender, Ready)
        ELSE w

\* if (room.sender && room.receiver) ready to both, the sender first
announceReady(w, id) ==
    LET room == w.rooms[id]
    IN  IF room.sender # None /\ room.receiver # None
        THEN send(send(w, room.sender, Ready), room.receiver, Ready)
        ELSE w

\* The end of a join that passed every check.
admit(w, ws, id, role) ==
    LET w1 == [w EXCEPT !.roomId[ws] = id, !.role[ws] = role,
                        !.rooms[id] = occupy(@, ws, role), !.ok = TRUE]
        w2 == touchRoom(w1, id)
        w3 == send(w2, ws, Joined(id, role))
    IN  announceReady(w3, id)

join(w, ws, msg) ==
    LET id == msg.roomId
        token == msg.token
        role == msg.role
    IN  IF id = None \/ token = None \/ role = None
        THEN send(w, ws, Err("roomId, token, role required"))
        ELSE LET w1 == getRoom(w, id)
             IN  IF badToken(w1.rooms[id], token)
                 THEN send(w1, ws, Err(ErrText("Invalid token", "bad token")))
                 ELSE LET w2 == [w1 EXCEPT !.rooms[id] = adoptToken(@, token)]
                          room == w2.rooms[id]
                      IN  IF senderTaken(room, ws, role)
                          THEN send(w2, ws, Err(ErrText("Sender already present", "sender exists")))
                          ELSE IF receiverTaken(room, ws, role)
                          THEN send(w2, ws, Err(ErrText("Receiver already present", "receiver exists")))
                          ELSE IF roomFull(room, ws)
                          THEN send(w2, ws, Err(ErrText("Room full", "room full")))
                          ELSE admit(w2, ws, id, role)

(* -------------------------------- relay -------------------------------- *)

\* The Node server: join first, room missing, peer open or not.
relayNode(w, ws, msg) ==
    LET id == w.roomId[ws]
        role == w.role[ws]
    IN  IF id = None \/ role = None
        THEN send(w, ws, Err("Join first"))
        ELSE IF id \notin DOMAIN w.rooms
        THEN send(w, ws, Err("Room missing"))
        ELSE LET target == peerOf(w.rooms[id], role)
             IN  IF target # None /\ w.rs[target] = "OPEN"
                 THEN send(touchRoom(w, id), target, Relayed(msg.type, msg.data))
                 ELSE send(w, ws, Err("Peer not connected"))

\* The Deno server: rooms.get(ws.roomId), then touch and send to the peer.
relayDeno(w, ws, msg) ==
    LET id == w.roomId[ws]
    IN  IF id \notin DOMAIN w.rooms
        THEN send(w, ws, Err("no room"))
        ELSE send(touchRoom(w, id), peerOf(w.rooms[id], w.role[ws]),
                  Relayed(msg.type, msg.data))

relay(w, ws, msg) ==
    IF impl = "node" THEN relayNode(w, ws, msg) ELSE relayDeno(w, ws, msg)

(* -------------------------- message handler ---------------------------- *)

dispatch(w, ws, msg) ==
    IF msg.type = "join" THEN join(w, ws, msg)
    ELSE IF msg.type \in RelayTypes THEN relay(w, ws, msg)
    ELSE IF msg.type = "leave" THEN cleanupSocket(w, ws)
    ELSE send(w, ws, Err(ErrText("Unknown message type", "unknown type")))

\* ws.on('message') / ws.onmessage: size, rate, parse, dispatch.
onMessage(w, ws, p) ==
    IF p.big THEN close(w, ws, CLOSE_TOO_BIG)
    ELSE LET w1 == enforceRateLimit(w, ws)
         IN  IF overLimit(w1.rate[ws]) THEN w1
             ELSE IF ~p.json THEN close(w1, ws, CLOSE_BAD_JSON)
             ELSE dispatch(w1, ws, p)

(* ------------------------------ actions -------------------------------- *)

\* The number of peer-left frames among those written.
PeerLeftCount(out) ==
    Cardinality({i \in 1..Len(out) : out[i].msg.type = "peer-left"})

\* The shared state after a handler that ended in world w.
Commit(w) ==
    /\ rooms' = w.rooms
    /\ connRoom' = w.roomId
    /\ connRole' = w.role
    /\ readyState' = w.rs
    /\ closeCode' = w.code
    /\ rateLimit' = w.rate
    /\ sent' = w.out

Init ==
    /\ impl \in Impls
    /\ now = 0
    /\ rooms = << >>
    /\ connRoom = [c \in Conns |-> None]
    /\ connRole = [c \in Conns |-> None]
    /\ readyState = [c \in Conns |-> "NEW"]
    /\ attached = [c \in Conns |-> FALSE]
    /\ closeCode = [c \in Conns |-> NOT_CLOSED]
    /\ rateLimit = [c \in Conns |-> << >>]
    /\ sent = << >>
    /\ handled = [c \in Conns |-> 0]
    /\ arrivals = [c \in Conns |-> << >>]
    /\ notices = [c \in Conns |-> 0]
    /\ hasLeft = [c \in Conns |-> FALSE]

\* wss.on('connection') / Deno.serve: a socket is accepted and its handlers
\* registered; the Node server closes a socket whose url is not '/ws'.
Connect(c, url) ==
    /\ readyState[c] = "NEW"
    /\ IF impl = "node" /\ url # "/ws"
       THEN /\ Commit(close([World EXCEPT !.rs[c] = "OPEN"], c, CLOSE_INVALID_PATH))
            /\ UNCHANGED attached
       ELSE /\ Commit([World EXCEPT !.rs[c] = "OPEN"])
            /\ attached' = [attached EXCEPT ![c] = TRUE]
    /\ UNCHANGED <<impl, now, handled, arrivals, notices, hasLeft>>

\* A frame arrives on socket c.
Receive(c, p) ==
    /\ attached[c]
    /\ readyState[c] \in {"OPEN", "CLOSING"}
    /\ handled[c] < MaxFrames(c)
    /\ handled["c1"] + handled["c2"] + handled["c3"] < MaxTotal
    /\ handled' = [handled EXCEPT ![c] = @ + 1]
    /\ LET w == onMessage(World, c, p)
       IN  /\ Commit(w)
           /\ notices' = [notices EXCEPT ![c] =
                  IF w.ok THEN 0 ELSE @ + PeerLeftCount(w.out)]
           /\ hasLeft' = [hasLeft EXCEPT ![c] =
                  IF w.ok THEN FALSE
                  ELSE IF /\ connRoom[c] # None
                          /\ ~p.big /\ p.json /\ p.type = "leave"
                          /\ ~overLimit(w.rate[c])
                  THEN TRUE ELSE @]
    /\ UNCHANGED <<impl, now, attached>>

\* The transport reports an error on an open socket, and starts closing it.
OnError(c) ==
    /\ attached[c]
    /\ readyState[c] = "OPEN"
    /\ LET w == cleanupSocket([World EXCEPT !.rs[c] = "CLOSING"], c)
       IN  /\ Commit(w)
           /\ notices' = [notices EXCEPT ![c] = @ + PeerLeftCount(w.out)]
    /\ UNCHANGED <<impl, now, attached, handled, arrivals, hasLeft>>

\* The socket is gone: the close event.
OnClose(c) ==
    /\ readyState[c] \in {"OPEN", "CLOSING"}
    /\ LET w0 == [World EXCEPT !.rs[c] = "CLOSED"]
           w == IF attached[c] THEN cleanupSocket(w0, c) ELSE w0
       IN  /\ Commit(w)
           /\ notices' = [notices EXCEPT ![c] = @ + PeerLeftCount(w.out)]
    /\ UNCHANGED <<impl, now, attached, handled, arrivals, hasLeft>>

\* The janitor's timer fires.
Sweep ==
    /\ Commit(cleanupStaleRooms(World))
    /\ UNCHANGED <<impl, now, attached, handled, arrivals, notices, hasLeft>>

\* Time passes: d milliseconds.
Tick(d) ==
    /\ now + d <= MaxTime
    /\ now' = now + d
    /\ UNCHANGED <<impl, rooms, connRoom, connRole, readyState, attached,
                   closeCode, rateLimit, handled, sent, arrivals, notices,
                   hasLeft>>

\* Sockets are accepted in the order c1, c2, c3.
Earlier(c) == IF c = "c1" THEN {} ELSE IF c = "c2" THEN {"c1"} ELSE {"c1", "c2"}
ConnectStep ==
    \E c \in Conns : Connect(c, "/ws") /\ \A d \in Earlier(c) : readyState[d] # "NEW"
ReceiveStep == \E c \in Conns : \E p \in Frames(c) : Receive(c, p) /\ UNCHANGED arrivals

ErrorStep == OnError("c1")
CloseStep == \E c \in Conns : OnClose(c)

\* Three sockets and their frames, within one janitor period.
Next == ConnectStep \/ ReceiveStep \/ ErrorStep \/ CloseStep

Spec == Init /\ [][Next]_vars

\* Two sockets, the janitor, and a clock that moves in steps longer than the
\* TTL.
ConnectTwo ==
    \E c \in {"c1", "c2"} : Connect(c, "/ws") /\ \A d \in Earlier(c) : readyState[d] # "NEW"
LongTick == Tick(ROOM_TTL_MS + 1)

NextJanitor ==
    ConnectTwo \/ ReceiveStep \/ ErrorStep \/ CloseStep \/ Sweep \/ LongTick

SpecJanitor == Init /\ [][NextJanitor]_vars

\* Three sockets that only join and close, and the same clock: joins that
\* come long after the room was last touched.
JoinStep ==
    \E c \in Conns : \E p \in Frames(c) :
        p.type = "join" /\ Receive(c, p) /\ UNCHANGED arrivals

NextJoin == ConnectStep \/ JoinStep \/ CloseStep \/ LongTick

SpecJoin == Init /\ [][NextJoin]_vars

\* One socket, frames that need no room, and a clock that moves by single
\* milliseconds; `arrivals` records when each frame reached the limiter.
ConnectAny == \E url \in Urls : Connect("c1", url)
RateReceive(c, p) ==
    /\ Receive(c, p)
    /\ arrivals' = [arrivals EXCEPT ![c] = IF p.big THEN @ ELSE Append(@, now)]
RateStep == \E p \in RateFrames : RateReceive("c1", p)
ShortTick == Tick(1)

NextRate == ConnectAny \/ RateStep \/ CloseStep \/ ShortTick

SpecRate == Init /\ [][NextRate]_vars

(* ------------------------- vocabulary of the claims -------------------- *)

Slot(room, R) == IF R = "sender" THEN room.sender ELSE room.receiver
Opposite(R) == IF R = "sender" THEN "receiver" ELSE "sender"
SlotRoles == {"sender", "receiver"}

\* The step handled frame p of socket c and handed it to the dispatcher: it
\* was not too big, the limiter let it through (what it left in the WeakMap
\* is within the cap) and it parsed.
Dispatched(c, p) ==
    /\ ~p.big
    /\ p.json
    /\ handled'[c] = handled[c] + 1
    /\ Len(rateLimit'[c]) <= RATE_LIMIT_MAX
    /\ Receive(c, p)

IsJoin(p) == p.type = "join" /\ p.roomId # None /\ p.token # None /\ p.role # None

\* Exactly these frames were written by the last handler.
Wrote(frames) == sent' = frames
To(c, m) == [to |-> c, msg |-> m]

BadTokenTexts == {"Invalid token", "bad token"}
RoomFullTexts == {"Room full", "room full"}
SenderExistsTexts == {"Sender already present", "sender exists"}
ReceiverExistsTexts == {"Receiver already present", "receiver exists"}
JoinFirstTexts == {"Join first", "join first"}

\* The last handler wrote one frame: an error to c with a text among texts.
WroteError(c, texts) ==
    /\ Len(sent') = 1
    /\ sent'[1].to = c
    /\ sent'[1].msg.type = "error"
    /\ sent'[1].msg.message \in texts

(* -------------------------------- C1 ----------------------------------- *)

\* Every slot of every room is empty or holds one socket.
SlotsOK ==
    \A r \in DOMAIN rooms :
        /\ rooms[r].sender \in Conns \cup {None}
        /\ rooms[r].receiver \in Conns \cup {None}
        /\ occupied(rooms[r]) \in {0, 1, 2}

\* No step hands an occupied slot of a room to a different socket.
NoReplace ==
    \A r \in (DOMAIN rooms) \cap (DOMAIN rooms') : \A R \in SlotRoles :
        Slot(rooms[r], R) # None => Slot(rooms'[r], R) \in {None, Slot(rooms[r], R)}

\* C1: in every reachable state each room has 0, 1 or 2 occupied slots, each
\* slot held by at most one socket, and no join (nor any other event) replaces
\* the socket that occupies a slot by a different one.
C1_SlotsExclusive == []SlotsOK /\ [][NoReplace]_vars

\* A join for an occupied slot by another socket was refused.
C1_Witness ==
    /\ "r1" \in DOMAIN rooms
    /\ rooms["r1"].sender = "c1"
    /\ Len(sent) = 1
    /\ sent[1].to = "c2"
    /\ sent[1].msg.message \in SenderExistsTexts

(* -------------------------------- C2 ----------------------------------- *)

\* C2: a join whose token differs from the secret of an existing room is
\* answered with an error to the (open) joiner and changes neither the
\* registry, nor any binding, nor the state of any socket.
C2_BadTokenRejected ==
    [][\A c \in Conns : \A p \in Frames(c) :
          (/\ IsJoin(p)
           /\ readyState[c] = "OPEN"
           /\ p.roomId \in DOMAIN rooms
           /\ rooms[p.roomId].token \notin {None, p.token}
           /\ Dispatched(c, p))
          => (/\ WroteError(c, BadTokenTexts)
              /\ rooms' = rooms
              /\ connRoom' = connRoom
              /\ connRole' = connRole
              /\ readyState' = readyState)]_vars

\* c2 was refused with the bad-token error while c1 holds the room, long
\* after the room was last touched.
C2_Witness ==
    /\ "r1" \in DOMAIN rooms
    /\ rooms["r1"].touchedAt < now
    /\ rooms["r1"].token = "t1"
    /\ rooms["r1"].sender = "c1"
    /\ Len(sent) = 1
    /\ sent[1].to = "c2"
    /\ sent[1].msg.message \in BadTokenTexts
    /\ readyState["c2"] = "OPEN"
    /\ connRoom["c2"] = None

(* -------------------------------- C3 ----------------------------------- *)

\* The room is not in the registry, or is there with both slots empty and
\* the token t.
EmptyFor(r, t) ==
    r \notin DOMAIN rooms
        \/ (rooms[r].sender = None /\ rooms[r].receiver = None /\ rooms[r].token = t)

\* The first of the two joins: into the empty room; joined and nothing else.
FirstJoin(c, p) ==
    (/\ IsJoin(p)
     /\ p.role \in SlotRoles
     /\ readyState[c] = "OPEN"
     /\ EmptyFor(p.roomId, p.token)
     /\ Dispatched(c, p))
    => Wrote(<<To(c, Joined(p.roomId, p.role))>>)

\* The second: a different open socket takes the other role with the same
\* token; joined to it, then one ready to each of the two.
SecondJoin(c, p) ==
    (/\ IsJoin(p)
     /\ p.role \in SlotRoles
     /\ readyState[c] = "OPEN"
     /\ p.roomId \in DOMAIN rooms
     /\ rooms[p.roomId].token = p.token
     /\ Slot(rooms[p.roomId], p.role) = None
     /\ Slot(rooms[p.roomId], Opposite(p.role)) \in Conns \ {c}
     /\ readyState[Slot(rooms[p.roomId], Opposite(p.role))] = "OPEN"
     /\ Dispatched(c, p))
    => LET x == Slot(rooms[p.roomId], Opposite(p.role))
           first == IF p.role = "sender" THEN c ELSE x
           second == IF p.role = "sender" THEN x ELSE c
       IN  Wrote(<<To(c, Joined(p.roomId, p.role)), To(first, Ready), To(second, Ready)>>)

\* C3: two different open sockets join an empty room with one token, one as
\* sender and one as receiver, in either order: the first gets joined alone,
\* the second gets joined, and then each of the two gets ready once.
C3_JoinedThenReady ==
    [][\A c \in Conns : \A p \in Frames(c) : FirstJoin(c, p) /\ SecondJoin(c, p)]_vars

\* c2 has just completed the pair as the sender, c1 waiting as the receiver.
C3_Witness ==
    /\ sent = <<To("c2", Joined("r1", "sender")), To("c2", Ready), To("c1", Ready)>>
    /\ rooms["r1"].receiver = "c1"

(* -------------------------------- C4 ----------------------------------- *)

\* A third open socket z asks for role p.role of a room that holds a sender
\* and a receiver, with the room's token.
ThirdJoin(z, p) ==
    /\ IsJoin(p)
    /\ readyState[z] = "OPEN"
    /\ p.roomId \in DOMAIN rooms
    /\ rooms[p.roomId].token = p.token
    /\ rooms[p.roomId].sender \in Conns \ {z}
    /\ rooms[p.roomId].receiver \in Conns \ {z}
    /\ Dispatched(z, p)

\* C4 as claimed: the answer is "room full" for either role, and the
\* registry (slots, secret, last activity) is unchanged.
C4_ThirdJoinRoomFull ==
    [][\A z \in Conns : \A p \in Frames(z) :
          (p.role \in SlotRoles /\ ThirdJoin(z, p))
          => (WroteError(z, RoomFullTexts) /\ rooms' = rooms)]_vars

\* C4 as amended: the answer is an error, "sender exists" for the sender role,
\* "receiver exists" for the receiver role and "room full" for any other
\* role, and the registry is unchanged.
C4_ThirdJoinRefused ==
    [][\A z \in Conns : \A p \in Frames(z) :
          ThirdJoin(z, p)
          => (/\ WroteError(z, IF p.role = "sender" THEN SenderExistsTexts
                               ELSE IF p.role = "receiver" THEN ReceiverExistsTexts
                               ELSE RoomFullTexts)
              /\ rooms' = rooms
              /\ connRoom' = connRoom
              /\ connRole' = connRole)]_vars

\* c3 was refused by the paired room of c1 and c2, long after the room was
\* last touched.
C4_Witness ==
    /\ "r1" \in DOMAIN rooms
    /\ rooms["r1"].touchedAt < now
    /\ rooms["r1"].sender = "c1"
    /\ rooms["r1"].receiver = "c2"
    /\ Len(sent) = 1
    /\ sent[1].to = "c3"
    /\ sent[1].msg.type = "error"
    /\ sent[1].msg.message \in SenderExistsTexts

(* -------------------------------- C5 ----------------------------------- *)

\* C5 as claimed: a socket that holds role R of room r and joins again with
\* the same room, token and role gets joined and nothing else is written, to
\* it or to its peer; slots, secret and bindings stay as they were.
C5_RejoinOnlyJoined ==
    [][\A c \in Conns : \A p \in Frames(c) :
          (/\ IsJoin(p)
           /\ p.role \in SlotRoles
           /\ readyState[c] = "OPEN"
           /\ connRoom[c] = p.roomId
           /\ connRole[c] = p.role
           /\ p.roomId \in DOMAIN rooms
           /\ rooms[p.roomId].token = p.token
           /\ Slot(rooms[p.roomId], p.role) = c
           /\ Dispatched(c, p))
          => (/\ Wrote(<<To(c, Joined(p.roomId, p.role))>>)
              /\ p.roomId \in DOMAIN rooms'
              /\ rooms'[p.roomId].sender = rooms[p.roomId].sender
              /\ rooms'[p.roomId].receiver = rooms[p.roomId].receiver
              /\ rooms'[p.roomId].token = rooms[p.roomId].token
              /\ connRoom' = connRoom
              /\ connRole' = connRole)]_vars

(* -------------------------------- C6 ----------------------------------- *)

\* C6 as claimed: over the leave of a socket and every cleanup that follows
\* for it (its close, its error), its peer is written one peer-left, not more.
C6_OnePeerLeft == \A x \in Conns : notices[x] <= 1

(* -------------------------------- C7 ----------------------------------- *)

\* C7 as claimed: an offer, answer or ice of a socket that never joined is
\* answered with "join first" and written to nobody else.
C7_JoinFirst ==
    [][\A c \in Conns : \A p \in Frames(c) :
          (/\ p.type \in RelayTypes
           /\ readyState[c] = "OPEN"
           /\ connRoom[c] = None
           /\ Dispatched(c, p))
          => WroteError(c, JoinFirstTexts)]_vars

(* -------------------------------- C8 ----------------------------------- *)

\* How many earlier frames of c reached the limiter inside the window that
\* ends now.
InWindow(c) ==
    Cardinality({i \in 1..Len(arrivals[c]) :
                    arrivals[c][i] >= now - RATE_LIMIT_WINDOW_MS})

\* A frame that reaches the limiter is rejected exactly when the window
\* already holds RATE_LIMIT_MAX frames; a rejected frame closes the socket
\* with the rate-limit code and is not dispatched.
RateVerdict(c, p) ==
    (~p.big /\ handled'[c] = handled[c] + 1 /\ RateReceive(c, p))
    => IF InWindow(c) >= RATE_LIMIT_MAX
       THEN /\ readyState'[c] # "OPEN"
            /\ readyState[c] = "OPEN" => closeCode'[c] = CLOSE_RATE_LIMIT
            /\ sent' = << >>
            /\ rooms' = rooms
       ELSE /\ closeCode'[c] = CLOSE_RATE_LIMIT => closeCode[c] = CLOSE_RATE_LIMIT
            /\ (readyState[c] = "OPEN" /\ p.json /\ p.type # "leave") => Len(sent') = 1
            /\ (readyState[c] = "OPEN" /\ ~p.json) => closeCode'[c] = CLOSE_BAD_JSON

\* Frames always more than the window apart are never rejected.
SpacedNeverRejected ==
    \A c \in Conns :
        (\A i \in 1..(Len(arrivals[c]) - 1) :
            arrivals[c][i + 1] - arrivals[c][i] > RATE_LIMIT_WINDOW_MS)
        => closeCode[c] # CLOSE_RATE_LIMIT

\* C8: per socket, the first RATE_LIMIT_MAX frames inside any trailing window
\* are accepted and the next one inside it is rejected and closes the socket
\* with the rate-limit code; frames more than the window apart are never
\* rejected.
C8_RateLimit ==
    /\ [][\A c \in Conns : \A p \in RateFrames : RateVerdict(c, p)]_vars
    /\ []SpacedNeverRejected

\* The third frame of c1 came inside the window of the first two, across a
\* tick of the clock, and closed it.
C8_Witness ==
    /\ arrivals["c1"] = <<0, 1, 1>>
    /\ closeCode["c1"] = CLOSE_RATE_LIMIT
    /\ readyState["c1"] = "CLOSING"

(* -------------------------------- C9 ----------------------------------- *)

\* The room's last activity is older than the TTL.
OlderThanTTL(r) == rooms[r].touchedAt + ROOM_TTL_MS < now

\* C9 as claimed: after a sweep no room older than the TTL is in the
\* registry, and every socket whose roomId names such a room has been closed.
C9_SweepClosesBound ==
    [][Sweep => \A r \in DOMAIN rooms :
          OlderThanTTL(r)
          => (/\ r \notin DOMAIN rooms'
              /\ \A c \in Conns : connRoom[c] = r => readyState'[c] # "OPEN")]_vars

(* -------------------------------- C10 ---------------------------------- *)

\* C10: when x occupies the slot of its role in the room it is bound to, and
\* the opposite slot holds a different, open socket y, an offer, answer or
\* ice of x is written to y, once, with its type and data, and nothing is
\* written to x or to anyone else.
C10_RelayToPeer ==
    [][\A x \in Conns : \A p \in Frames(x) :
          (/\ p.type \in RelayTypes
           /\ connRoom[x] \in DOMAIN rooms
           /\ connRole[x] \in SlotRoles
           /\ Slot(rooms[connRoom[x]], connRole[x]) = x
           /\ Slot(rooms[connRoom[x]], Opposite(connRole[x])) \in Conns \ {x}
           /\ readyState[Slot(rooms[connRoom[x]], Opposite(connRole[x]))] = "OPEN"
           /\ Dispatched(x, p))
          => Wrote(<<[to |-> Slot(rooms[connRoom[x]], Opposite(connRole[x])),
                      msg |-> [type |-> p.type, roomId |-> None, role |-> None,
                               message |-> None, data |-> p.data]]>>)]_vars

\* c2 was written the offer of c1.
C10_Witness ==
    /\ Len(sent) = 1
    /\ sent[1].to = "c2"
    /\ sent[1].msg.type = "offer"
    /\ sent[1].msg.data = "d1"
    /\ rooms["r1"].sender = "c1"
    /\ rooms["r1"].receiver = "c2"

(* -------------------------------- C11 ---------------------------------- *)

\* The slots that reference socket c, as pairs <<room id, role>>.
SlotsOf(c) ==
    {s \in (DOMAIN rooms) \X SlotRoles : Slot(rooms[s[1]], s[2]) = c}

\* A binding that was set is not set again to something else.
BindingKept ==
    \A c \in Conns :
        connRoom[c] # None
        => (connRoom'[c] = connRoom[c] /\ connRole'[c] = connRole[c])

\* C11 as claimed: roomId and role of a socket are set once and never
\* reassigned, and every socket occupies at most one slot over all the rooms
\* of the registry.
C11_OneBinding ==
    [](\A c \in Conns : Cardinality(SlotsOf(c)) <= 1) /\ [][BindingKept]_vars

(* -------------------------------- C12 ---------------------------------- *)

\* Every room of the registry has a secret.
SecretSet == \A r \in DOMAIN rooms : rooms[r].token \in Tokens

\* No step changes the secret of a room that stays in the registry.
SecretKept ==
    \A r \in (DOMAIN rooms) \cap (DOMAIN rooms') : rooms'[r].token = rooms[r].token

\* A room enters the registry in a join that is admitted (the joiner is bound
\* to it), and its secret is the token of that join.
SecretFromFirstJoin ==
    \A r \in (DOMAIN rooms') \ (DOMAIN rooms) :
        \E c \in Conns : \E p \in Frames(c) :
            /\ IsJoin(p)
            /\ p.roomId = r
            /\ rooms'[r].token = p.token
            /\ connRoom'[c] = r
            /\ connRole'[c] = p.role
            /\ Dispatched(c, p)

\* C12: the secret of a room is the token of the first successful join into
\* it, no event changes it while the room is in the registry, and every room
\* of the registry has one.
C12_SecretImmutable ==
    []SecretSet /\ [][SecretKept /\ SecretFromFirstJoin]_vars

\* r1 was left empty and deleted, c2 created it again with the token t2, and
\* the join of c1 with the old token t1 was refused.
C12_Witness ==
    /\ "r1" \in DOMAIN rooms
    /\ rooms["r1"].token = "t2"
    /\ rooms["r1"].receiver = "c2"
    /\ hasLeft["c1"]
    /\ Len(sent) = 1
    /\ sent[1].to = "c1"
    /\ sent[1].msg.message \in BadTokenTexts

(* -------------------------------- C13 ---------------------------------- *)

\* C13 as claimed: a socket that sent leave and has not joined again since
\* gets an error for every offer, answer or ice it sends, and the frame is
\* written to nobody else, the occupant that stayed in the room included.
C13_LeftIsUnjoined ==
    [][\A c \in Conns : \A p \in Frames(c) :
          (/\ p.type \in RelayTypes
           /\ hasLeft[c]
           /\ readyState[c] = "OPEN"
           /\ Dispatched(c, p))
          => (/\ Len(sent') = 1
              /\ sent'[1].to = c
              /\ sent'[1].msg.type = "error")]_vars

(* -------------------------------- C14 ---------------------------------- *)

PeerNotConnectedTexts == {"Peer not connected", "peer not connected"}

\* C14 as claimed: a socket that occupies its slot of the room it is bound to
\* sends offer, answer or ice while the opposite slot is empty or holds a
\* socket that is not open: it is written the error "peer not connected" and
\* the frame is written to nobody.
C14_PeerNotConnected ==
    [][\A x \in Conns : \A p \in Frames(x) :
          (/\ p.type \in RelayTypes
           /\ readyState[x] = "OPEN"
           /\ connRoom[x] \in DOMAIN rooms
           /\ connRole[x] \in SlotRoles
           /\ Slot(rooms[connRoom[x]], connRole[x]) = x
           /\ LET y == Slot(rooms[connRoom[x]], Opposite(connRole[x]))
              IN  y = None \/ readyState[y] # "OPEN"
           /\ Dispatched(x, p))
          => WroteError(x, PeerNotConnectedTexts)]_vars

(* -------------------------------- C15 ---------------------------------- *)

\* x sent leave while bound to role R of room r, and a different socket
\* holds role R of r now.
Superseded(x) ==
    /\ hasLeft[x]
    /\ connRoom[x] \in DOMAIN rooms
    /\ connRole[x] \in SlotRoles
    /\ Slot(rooms[connRoom[x]], connRole[x]) \in Conns \ {x}

\* The last handler wrote no peer-left.
NoPeerLeftWritten == \A i \in 1..Len(sent') : sent'[i].msg.type # "peer-left"

\* C15 as claimed: the cleanup that runs on the close or the error of a
\* socket whose slot was taken over after it left clears no slot of the room,
\* does not delete the room and writes no peer-left.
C15_StaleCleanupHarmless ==
    [][\A x \in Conns :
          (Superseded(x) /\ (OnClose(x) \/ OnError(x)))
          => (/\ connRoom[x] \in DOMAIN rooms'
              /\ rooms'[connRoom[x]].sender = rooms[connRoom[x]].sender
              /\ rooms'[connRoom[x]].receiver = rooms[connRoom[x]].receiver
              /\ NoPeerLeftWritten)]_vars

(* -------------------------------- C16 ---------------------------------- *)

\* C16 as claimed: between two handlers every room of the registry has at
\* least one occupied slot.
C16_NoEmptyRoom == \A r \in DOMAIN rooms : occupied(rooms[r]) >= 1

(* -------------------------------- C17 ---------------------------------- *)

\* Every room of the registry is still there with the last activity it had.
ActivityKept ==
    \A r \in DOMAIN rooms :
        r \in DOMAIN rooms' /\ rooms'[r].touchedAt = rooms[r].touchedAt

\* The last handler wrote no offer, answer or ice.
NoRelayWritten == \A i \in 1..Len(sent') : sent'[i].msg.type \notin RelayTypes

\* C17 as claimed: an offer, answer or ice that is delivered to nobody, and a
\* join that is answered with an error, leave the last activity of every
\* room as it was.
C17_FailuresDoNotTouch ==
    [][\A c \in Conns : \A p \in Frames(c) :
          /\ (p.type \in RelayTypes /\ NoRelayWritten /\ Dispatched(c, p))
             => ActivityKept
          /\ (/\ IsJoin(p)
              /\ readyState[c] = "OPEN"
              /\ Len(sent') = 1
              /\ sent'[1].msg.type = "error"
              /\ Dispatched(c, p))
             => ActivityKept]_vars

(* -------------------------------- C18 ---------------------------------- *)

\* C18 as claimed: once the close handler of a socket has run its cleanup, no
\* slot of any room of the registry references that socket.
C18_ClosedHoldsNoSlot ==
    \A c \in Conns : (readyState[c] = "CLOSED" /\ attached[c]) => SlotsOf(c) = {}

(* -------------------------------- C19 ---------------------------------- *)

\* The janitor closed x (it alone calls close without a code) and deleted its
\* room; the close event of x is still to come, and the id x is bound to
\* names a room again, created since, in which x holds no slot.
EvictedBeforeNewRoom(x) ==
    /\ readyState[x] = "CLOSING"
    /\ closeCode[x] = CLOSE_NO_CODE
    /\ connRoom[x] \in DOMAIN rooms
    /\ rooms[connRoom[x]].sender # x
    /\ rooms[connRoom[x]].receiver # x

\* C19 as claimed: the deferred cleanup of an evicted socket changes no slot
\* of the room created afterwards under the same id, does not delete it and
\* writes no peer-left.
C19_EvictionKeepsNewRoom ==
    [][\A x \in Conns :
          (EvictedBeforeNewRoom(x) /\ OnClose(x))
          => (/\ connRoom[x] \in DOMAIN rooms'
              /\ rooms'[connRoom[x]].sender = rooms[connRoom[x]].sender
              /\ rooms'[connRoom[x]].receiver = rooms[connRoom[x]].receiver
              /\ NoPeerLeftWritten)]_vars

(* -------------------------------- C20 ---------------------------------- *)

\* x and y are bound to one room of the registry, and hold its two slots,
\* each the slot of its own role.
PairedInOneRoom(x, y) ==
    /\ x # y
    /\ connRoom[x] \in DOMAIN rooms
    /\ connRoom[y] = connRoom[x]
    /\ connRole[x] \in SlotRoles
    /\ connRole[y] = Opposite(connRole[x])
    /\ Slot(rooms[connRoom[x]], connRole[x]) = x
    /\ Slot(rooms[connRoom[x]], connRole[y]) = y

\* C20 as claimed: whenever an offer, answer or ice of x is written to y, x
\* and y hold opposite slots of one room and both are bound to that room.
C20_RoomsIsolated ==
    [][\A x \in Conns : \A p \in Frames(x) :
          (p.type \in RelayTypes /\ Dispatched(x, p))
          => \A i \in 1..Len(sent') :
                sent'[i].msg.type \in RelayTypes => PairedInOneRoom(x, sent'[i].to)]_vars

====
